---- MODULE Spec2Model ----
(***************************************************************************)
(* pysnake (game.py): the simulation core of a terminal snake game.        *)
(* Game owns one Snake (a deque of cells, tail first, head last, and a     *)
(* direction) and one Field (a set of flowers) on a rows x cols torus.     *)
(* One step of the main loop forwards at most one arrow key to the snake   *)
(* and then calls Game.update once.                                        *)
(***************************************************************************)
EXTENDS Integers, Sequences, FiniteSets

\* ---------------------------------------------------------------- bounds
MaxCells == 9       \* grids have at most MaxCells cells
MaxLives == 2       \* Game is constructed with lives in 1..MaxLives
MaxScore == 2       \* ticks are explored while score < MaxScore

\* ------------------------------------------------------ program constants
Length == 3         \* Snake.__init__ default length
NumFlowers == 2     \* Field.__init__ default num_flowers

VARIABLES
    rows, cols,     \* Game.rows, Game.cols
    lives,          \* Game.lives
    score,          \* Game.score
    state,          \* Game.state: "playing" or "died"
    blocks,         \* Snake.blocks: sequence of <<row, col>>, tail first
    dir,            \* Snake.dir
    flowers,        \* Field.flowers
    outcome,        \* branch taken by the last Game.update:
                    \*   "new" (none yet), "respawn", "move", "eat",
                    \*   "death" (collision, returned True), "over" (returned False)
    new_block,      \* new_block computed by the last Snake.update (head at start)
    deaths,         \* number of Snake.update calls that reported is_living = False
    lives0,         \* the lives argument Game was constructed with
    raised,         \* exception that ended the program: "none", "KeyError", "ValueError"
    pc              \* "idle" between calls, "field" inside a sampling loop of Field

vars == <<rows, cols, lives, score, state, blocks, dir, flowers,
          outcome, new_block, deaths, lives0, raised, pc>>

\* ----------------------------------------------------------------- helpers
Cells == {<<r, c>> : r \in 0..(rows - 1), c \in 0..(cols - 1)}

Range(s) == {s[i] : i \in 1..Len(s)}

Head_(s) == s[Len(s)]

\* curses key codes forwarded by main; each sets Snake.dir
Keys == {"KEY_UP", "KEY_DOWN", "KEY_LEFT", "KEY_RIGHT"}

KeyDir(key) ==
    CASE key = "KEY_UP"    -> <<-1, 0>>
      [] key = "KEY_DOWN"  -> <<1, 0>>
      [] key = "KEY_LEFT"  -> <<0, -1>>
      [] key = "KEY_RIGHT" -> <<0, 1>>

\* The conditional wrap of Snake.update and Snake.grow: one correction only.
WrapHighOnly(v, n) == IF v < 0 THEN v ELSE IF v >= n THEN v - n ELSE v

Wrap(v, n) == IF v < 0 THEN n + v ELSE IF v >= n THEN v - n ELSE v

\* The wrap of Snake.__init__: negative values only.
InitWrap(v, n) == IF v < 0 THEN n + v ELSE v

\* Snake.__init__: pos, dir and the blocks for i in range(-length+1, 1).
SnakePos(r, c) == <<r \div 2, c \div 2>>

SnakeDir0 == <<0, 1>>

SnakeBlocksHeadFirst(r, c) ==
    [k \in 1..Length |->
        <<InitWrap(SnakePos(r, c)[1] - (k - 1) * SnakeDir0[1], r),
          InitWrap(SnakePos(r, c)[2] - (k - 1) * SnakeDir0[2], c)>>]

SnakeBlocks(r, c) ==
    [k \in 1..Length |->
        <<InitWrap(SnakePos(r, c)[1] + (k - Length) * SnakeDir0[1], r),
          InitWrap(SnakePos(r, c)[2] + (k - Length) * SnakeDir0[2], c)>>]

\* Snake.grow: prepend a cell that continues the tail away from the body.
TailDirOfHead(b, d) == d

TailDir(b, d) ==
    IF Len(b) < 2 THEN d
    ELSE <<b[1][1] - b[2][1], b[1][2] - b[2][2]>>

GrowBlock(b, d) ==
    <<Wrap(b[1][1] + TailDir(b, d)[1], rows),
      Wrap(b[1][2] + TailDir(b, d)[2], cols)>>

GrowNothing(b, d) == b

GrowAtHead(b, d) == b \o <<GrowBlock(b, d)>>

Grow(b, d) == <<GrowBlock(b, d)>> \o b

\* Snake.update: the new head computed from the body after popleft.
NewBlock(b, d) ==
    <<Wrap(Head_(b)[1] + d[1], rows), Wrap(Head_(b)[2] + d[2], cols)>>

\* Field.eat_flower
EatFlowerClears(fl, f) == {}

EatFlower(fl, f) == fl \ {f}

\* set.remove raises KeyError when the element is missing.
EatFlowerRaises(fl, f) == f \notin fl

\* Snake.update(field): the result and the snake / field it leaves behind.
SnakeUpdateNoCheck(b, d, fl) ==
    LET rest == Tail(b)
        nb   == NewBlock(rest, d)
    IN  IF nb \in fl
        THEN [is_living |-> TRUE, ate_flower |-> TRUE,
              blocks |-> Append(Grow(rest, d), nb),
              flowers |-> EatFlower(fl, nb), new_block |-> nb]
        ELSE [is_living |-> TRUE, ate_flower |-> FALSE,
              blocks |-> Append(rest, nb), flowers |-> fl, new_block |-> nb]

SnakeUpdateNoAppend(b, d, fl) ==
    LET rest == Tail(b)
        nb   == NewBlock(rest, d)
    IN  IF nb \in Range(rest)
        THEN [is_living |-> FALSE, ate_flower |-> FALSE,
              blocks |-> rest, flowers |-> fl, new_block |-> nb]
        ELSE IF nb \in fl
        THEN [is_living |-> TRUE, ate_flower |-> TRUE,
              blocks |-> Append(Grow(rest, d), nb),
              flowers |-> EatFlower(fl, nb), new_block |-> nb]
        ELSE [is_living |-> TRUE, ate_flower |-> FALSE,
              blocks |-> rest, flowers |-> fl, new_block |-> nb]

SnakeUpdateCheckWithTail(b, d, fl) ==
    LET rest == Tail(b)
        nb   == NewBlock(rest, d)
    IN  IF nb \in Range(b)
        THEN [is_living |-> FALSE, ate_flower |-> FALSE,
              blocks |-> rest, flowers |-> fl, new_block |-> nb]
        ELSE IF nb \in fl
        THEN [is_living |-> TRUE, ate_flower |-> TRUE,
              blocks |-> Append(Grow(rest, d), nb),
              flowers |-> EatFlower(fl, nb), new_block |-> nb]
        ELSE [is_living |-> TRUE, ate_flower |-> FALSE,
              blocks |-> Append(rest, nb), flowers |-> fl, new_block |-> nb]

SnakeUpdateDeadAppends(b, d, fl) ==
    LET rest == Tail(b)
        nb   == NewBlock(rest, d)
    IN  IF nb \in Range(rest)
        THEN [is_living |-> FALSE, ate_flower |-> FALSE,
              blocks |-> Append(rest, nb), flowers |-> fl, new_block |-> nb]
        ELSE IF nb \in fl
        THEN [is_living |-> TRUE, ate_flower |-> TRUE,
              blocks |-> Append(Grow(rest, d), nb),
              flowers |-> EatFlower(fl, nb), new_block |-> nb]
        ELSE [is_living |-> TRUE, ate_flower |-> FALSE,
              blocks |-> Append(rest, nb), flowers |-> fl, new_block |-> nb]

SnakeUpdateEatsUnchecked(b, d, fl) ==
    LET rest == Tail(b)
        nb   == NewBlock(rest, d)
    IN  IF nb \in Range(rest)
        THEN [is_living |-> FALSE, ate_flower |-> FALSE,
              blocks |-> rest, flowers |-> fl, new_block |-> nb]
        ELSE [is_living |-> TRUE, ate_flower |-> TRUE,
              blocks |-> Append(Grow(rest, d), nb),
              flowers |-> EatFlower(fl, nb), new_block |-> nb]

SnakeUpdateKeepTail(b, d, fl) ==
    LET rest == Tail(b)
        nb   == NewBlock(rest, d)
    IN  IF nb \in Range(rest)
        THEN [is_living |-> FALSE, ate_flower |-> FALSE,
              blocks |-> b, flowers |-> fl, new_block |-> nb]
        ELSE IF nb \in fl
        THEN [is_living |-> TRUE, ate_flower |-> TRUE,
              blocks |-> Append(Grow(rest, d), nb),
              flowers |-> EatFlower(fl, nb), new_block |-> nb]
        ELSE [is_living |-> TRUE, ate_flower |-> FALSE,
              blocks |-> Append(rest, nb), flowers |-> fl, new_block |-> nb]

SnakeUpdate(b, d, fl) ==
    LET rest == Tail(b)
        nb   == NewBlock(rest, d)
    IN  IF nb \in Range(rest)
        THEN [is_living |-> FALSE, ate_flower |-> FALSE,
              blocks |-> rest, flowers |-> fl, new_block |-> nb]
        ELSE IF nb \in fl
        THEN [is_living |-> TRUE, ate_flower |-> TRUE,
              blocks |-> Append(Grow(rest, d), nb),
              flowers |-> EatFlower(fl, nb), new_block |-> nb]
        ELSE [is_living |-> TRUE, ate_flower |-> FALSE,
              blocks |-> Append(rest, nb), flowers |-> fl, new_block |-> nb]

\* The sampling loop of Field.__init__ and Field.update: every flower set the
\* loop can end with.  Sampled positions on the snake are rejected; the loop
\* runs until num_flowers flowers exist, so it has no result (it does not
\* terminate) when too few cells are free.
RECURSIVE FieldFill(_, _)
FieldFill(fl, b) ==
    IF Cardinality(fl) >= NumFlowers THEN {fl}
    ELSE UNION {FieldFill(fl \cup {pos}, b) : pos \in Cells \ (Range(b) \cup fl)}

\* Field.__init__(rows, cols, snake)
FieldInit(b) == FieldFill({}, b)

\* Field.update(snake)
FieldUpdateNoTopUp(fl, b) == {fl}

FieldUpdate(fl, b) == FieldFill(fl, b)

\* Game.update: the tests on lives and the updates of lives and score.
LastLifeOffByOne(l) == l < 1

LastLife(l) == l < 2

ScoreAfterReset(s, ate_flower) == IF ate_flower THEN s + 1 ELSE 0

ScoreAfter(s, ate_flower) == IF ate_flower THEN s + 1 ELSE s

\* Game.sleep, called by main after an update that returned True: it raises
\* ValueError in any state other than 'playing' and 'died'.
SleepRaises(st) == st \notin {"playing", "died"}

Sleep(st) == IF SleepRaises(st) THEN "ValueError" ELSE "none"

\* ------------------------------------------------------------------- Init
\* The grids explored: field_rows >= 1 and field_cols >= Length, so that the
\* initial snake fits in a row.
Grids == {g \in (1..MaxCells) \X (Length..MaxCells) : g[1] * g[2] <= MaxCells}

\* Game.__init__ followed by new_game.
Init ==
    /\ \E g \in Grids : rows = g[1] /\ cols = g[2]
    /\ lives0 \in 1..MaxLives
    /\ lives = lives0
    /\ score = 0
    /\ state = "playing"
    /\ blocks = SnakeBlocks(rows, cols)
    /\ dir = SnakeDir0
    /\ flowers \in FieldInit(blocks)
    /\ outcome = "new"
    /\ new_block = Head_(blocks)
    /\ deaths = 0
    /\ raised = "none"
    /\ pc = "idle"

\* ---------------------------------------------------------------- actions
\* main: the loop runs until Game.update returns False or an exception ends it.
Running == outcome # "over" /\ raised = "none"

\* Game.key_callback -> Snake.key_callback
KeyCallbackNoReverse ==
    /\ Running
    /\ \E key \in Keys :
         dir' = IF KeyDir(key) = <<-dir[1], -dir[2]>> THEN dir ELSE KeyDir(key)
    /\ UNCHANGED <<rows, cols, lives, score, state, blocks, flowers,
                   outcome, new_block, deaths, lives0, raised, pc>>

KeyCallback ==
    /\ Running
    /\ \E key \in Keys : dir' = KeyDir(key)
    /\ UNCHANGED <<rows, cols, lives, score, state, blocks, flowers,
                   outcome, new_block, deaths, lives0, raised, pc>>

\* Game.update in state 'died': new_game, then state = 'playing'.
RespawnKeepDir ==
    /\ blocks' = SnakeBlocks(rows, cols)
    /\ dir' = dir
    /\ flowers' \in FieldInit(blocks')
    /\ state' = "playing"
    /\ outcome' = "respawn"
    /\ new_block' = Head_(blocks')
    /\ raised' = Sleep(state')
    /\ UNCHANGED <<rows, cols, lives, score, deaths, lives0>>

Respawn ==
    /\ blocks' = SnakeBlocks(rows, cols)
    /\ dir' = SnakeDir0
    /\ flowers' \in FieldInit(blocks')
    /\ state' = "playing"
    /\ outcome' = "respawn"
    /\ new_block' = Head_(blocks')
    /\ raised' = Sleep(state')
    /\ UNCHANGED <<rows, cols, lives, score, deaths, lives0>>

\* Game.update in state 'playing', then Game.sleep when it returned True.
\* Snake.update calls field.eat_flower(new_block) exactly when it reports
\* ate_flower; a KeyError there leaves update after popleft alone.
Play ==
    LET r == SnakeUpdate(blocks, dir, flowers)
    IN  IF r.ate_flower /\ EatFlowerRaises(flowers, r.new_block)
        THEN /\ raised' = "KeyError"
             /\ blocks' = Tail(blocks)
             /\ new_block' = r.new_block
             /\ UNCHANGED <<rows, cols, lives, score, state, dir, flowers,
                            outcome, deaths, lives0>>
        ELSE
        /\ blocks' = r.blocks
        /\ new_block' = r.new_block
        /\ deaths' = IF r.is_living THEN deaths ELSE deaths + 1
        /\ IF ~r.is_living /\ LastLife(lives)
           THEN /\ outcome' = "over"
                /\ flowers' = r.flowers
                /\ raised' = "none"
                /\ UNCHANGED <<lives, state, score>>
           ELSE /\ IF r.is_living
                   THEN /\ outcome' = IF r.ate_flower THEN "eat" ELSE "move"
                        /\ UNCHANGED <<lives, state>>
                   ELSE /\ outcome' = "death"
                        /\ lives' = lives - 1
                        /\ state' = "died"
                /\ score' = ScoreAfter(score, r.ate_flower)
                /\ flowers' \in FieldUpdate(r.flowers, r.blocks)
                /\ raised' = Sleep(state')
        /\ UNCHANGED <<rows, cols, dir, lives0>>

Update ==
    /\ Running
    /\ score < MaxScore
    /\ IF state = "died" THEN Respawn ELSE Play
    /\ pc' = pc

Next == KeyCallback \/ Update

Spec == Init /\ [][Next]_vars

\* ------------------------------------------------ the sampling loops, stepwise
\* The same program with the while loops of Field.__init__ and Field.update
\* taken one iteration at a time: pc = "field" while a loop is running.

\* Game.__init__ up to the start of the loop of Field.__init__.
LoopInit ==
    /\ \E g \in Grids : rows = g[1] /\ cols = g[2]
    /\ lives0 \in 1..MaxLives
    /\ lives = lives0
    /\ score = 0
    /\ state = "playing"
    /\ blocks = SnakeBlocks(rows, cols)
    /\ dir = SnakeDir0
    /\ flowers = {}
    /\ outcome = "new"
    /\ new_block = Head_(blocks)
    /\ deaths = 0
    /\ raised = "none"
    /\ pc = "field"

\* The loop condition of both loops.
LoopCond(fl) == Cardinality(fl) < NumFlowers

\* The loop body: a sampled position is added unless it is on the snake
\* (adding a position that is a flower already changes nothing).
LoopBody(fl, body, pos) == IF pos \notin Range(body) THEN fl \cup {pos} ELSE fl

\* One iteration of the loop.
Sample ==
    /\ pc = "field"
    /\ LoopCond(flowers)
    /\ \E pos \in Cells : flowers' = LoopBody(flowers, blocks, pos)
    /\ UNCHANGED <<rows, cols, lives, score, state, blocks, dir,
                   outcome, new_block, deaths, lives0, raised, pc>>

\* The loop condition fails: Field.__init__ or Field.update returns, and
\* Game.update with it; main then sleeps.
LoopExit ==
    /\ pc = "field"
    /\ ~LoopCond(flowers)
    /\ pc' = "idle"
    /\ raised' = IF outcome = "new" THEN raised ELSE Sleep(state)
    /\ UNCHANGED <<rows, cols, lives, score, state, blocks, dir, flowers,
                   outcome, new_block, deaths, lives0>>

LoopKeyCallback == pc = "idle" /\ KeyCallback

\* Game.update in state 'died', up to the loop of Field.__init__.
LoopRespawn ==
    /\ blocks' = SnakeBlocks(rows, cols)
    /\ dir' = SnakeDir0
    /\ flowers' = {}
    /\ state' = "playing"
    /\ outcome' = "respawn"
    /\ new_block' = Head_(blocks')
    /\ pc' = "field"
    /\ UNCHANGED <<rows, cols, lives, score, deaths, lives0, raised>>

\* Game.update in state 'playing', up to the loop of Field.update.
LoopPlay ==
    LET r == SnakeUpdate(blocks, dir, flowers)
    IN  IF r.ate_flower /\ EatFlowerRaises(flowers, r.new_block)
        THEN /\ raised' = "KeyError"
             /\ blocks' = Tail(blocks)
             /\ new_block' = r.new_block
             /\ UNCHANGED <<rows, cols, lives, score, state, dir, flowers,
                            outcome, deaths, lives0, pc>>
        ELSE
        /\ blocks' = r.blocks
        /\ new_block' = r.new_block
        /\ deaths' = IF r.is_living THEN deaths ELSE deaths + 1
        /\ flowers' = r.flowers
        /\ IF ~r.is_living /\ LastLife(lives)
           THEN /\ outcome' = "over"
                /\ UNCHANGED <<lives, state, score, pc>>
           ELSE /\ IF r.is_living
                   THEN /\ outcome' = IF r.ate_flower THEN "eat" ELSE "move"
                        /\ UNCHANGED <<lives, state>>
                   ELSE /\ outcome' = "death"
                        /\ lives' = lives - 1
                        /\ state' = "died"
                /\ score' = ScoreAfter(score, r.ate_flower)
                /\ pc' = "field"
        /\ UNCHANGED <<rows, cols, dir, lives0, raised>>

LoopUpdate ==
    /\ pc = "idle"
    /\ Running
    /\ score < MaxScore
    /\ IF state = "died" THEN LoopRespawn ELSE LoopPlay

LoopNext == LoopKeyCallback \/ LoopUpdate \/ Sample \/ LoopExit

\* Fair sampling: an iteration that can add a flower is eventually taken, and
\* a loop whose condition fails is left.
LoopFair == WF_vars(Sample) /\ WF_vars(LoopExit)

LoopSpec == LoopInit /\ [][LoopNext]_vars /\ LoopFair

\* ================================================================== claims
\* Helpers of the statements below.
NoDup(s) == Cardinality(Range(s)) = Len(s)

\* value mod bound, for a coordinate and a unit step
TorusStep(pos, d) == <<(pos[1] + d[1] + rows) % rows, (pos[2] + d[2] + cols) % cols>>

\* A step is a Game.update call made in state 'playing': such a call always
\* changes the body; a key press never does.
PlayingTick == state = "playing" /\ blocks' # blocks

\* The fixed initial snake, tail first.
InitialSnake ==
    <<<<rows \div 2, (cols \div 2 - 2 + cols) % cols>>,
      <<rows \div 2, (cols \div 2 - 1 + cols) % cols>>,
      <<rows \div 2, cols \div 2>>>>

\* C1: a Game created with lives = L returns False from update on exactly the
\* L-th fatal collision; each earlier fatal collision returns True, takes one
\* life and leaves the state 'died'.
C1_LifeCycle ==
    /\ deaths <= lives0
    /\ (outcome = "over") <=> (deaths = lives0)
    /\ (state = "died") <=> (outcome = "death")
    /\ outcome = "death" => deaths < lives0 /\ lives = lives0 - deaths
    /\ outcome # "over" => lives = lives0 - deaths

C1_Witness == outcome = "over" /\ lives0 = MaxLives /\ deaths = MaxLives

\* C2 as stated: when update returns False, lives has been decremented to 0.
C2_Original == outcome = "over" => lives = 0

\* C2 amended: when update returns False, lives is 1; the final fatal collision
\* does not decrement it, so L - 1 decrements happened in all.
C2_LivesAtEnd == outcome = "over" => lives = 1 /\ lives0 - lives = deaths - 1

C2_Witness == outcome = "over" /\ lives0 = MaxLives /\ lives = 1

\* C3: an update in state 'died' only respawns: the state becomes 'playing',
\* the snake is the fixed initial snake heading (0,1) whatever direction was
\* set before, the field is fresh, score and lives are unchanged; any other
\* step taken in 'died' is a key press, so 'died' lasts one tick.
C3_Respawn ==
    [][state = "died" =>
         IF state' = "died"
         THEN blocks' = blocks /\ outcome' = outcome /\ flowers' = flowers
              /\ score' = score /\ lives' = lives
         ELSE /\ state' = "playing"
              /\ outcome' = "respawn"
              /\ blocks' = InitialSnake
              /\ dir' = <<0, 1>>
              /\ Cardinality(flowers') = NumFlowers
              /\ flowers' \cap Range(blocks') = {}
              /\ score' = score
              /\ lives' = lives]_vars

C3_Witness == outcome = "respawn" /\ score = 1 /\ lives = lives0 - 1

\* C4: a tick whose new head cell is a flower outside the remaining body
\* reports (True, True), removes that flower and makes the snake one cell
\* longer; a tick survived without eating keeps the length.
C4_EatingTick ==
    [][PlayingTick =>
         /\ (/\ TorusStep(Head_(blocks), dir) \in flowers
             /\ TorusStep(Head_(blocks), dir) \notin Range(Tail(blocks)))
            => /\ outcome' = "eat"
               /\ TorusStep(Head_(blocks), dir) \notin flowers'
               /\ Len(blocks') = Len(blocks) + 1
         /\ outcome' = "move" => Len(blocks') = Len(blocks)]_vars

C4_Witness == outcome = "eat" /\ Len(blocks) = Length + 1 /\ new_block \notin flowers

\* C5 as stated: the length never decreases across a tick within a life,
\* the tick that detects a fatal collision included.
C5_Original == [][state = "playing" => Len(blocks') >= Len(blocks)]_vars

\* C5 amended: the length never decreases across a tick the snake survives;
\* the tick that detects a fatal collision leaves the body exactly one cell
\* shorter (tail removed, head not appended).
C5_LengthMonotone ==
    [][state = "playing" =>
         IF deaths' # deaths
         THEN Len(blocks') = Len(blocks) - 1 /\ blocks' = Tail(blocks)
         ELSE Len(blocks') >= Len(blocks)]_vars

C5_Witness == outcome = "death" /\ Len(blocks) = Length /\ score = 1

\* C6: the field always holds exactly num_flowers distinct flowers.
C6_FlowerCount == Cardinality(flowers) = NumFlowers /\ flowers \subseteq Cells

C6_Witness == outcome = "eat" /\ Cardinality(flowers) = NumFlowers /\ score = MaxScore

\* C7 as stated: no flower is ever on a cell of the snake's body.
C7_NoFlowerOnSnake == flowers \cap Range(blocks) = {}

\* C8 as stated: at the start of every tick the body has no duplicate cell.
C8_Original == (outcome # "over" /\ state = "playing") => NoDup(blocks)

\* C8 amended: the body has no duplicate cell at construction, and a duplicate
\* appears only on a tick that eats, as the tail cell Grow prepends without
\* checking it against the body and the new head.
C8_DupOnlyByGrow ==
    /\ NoDup(blocks)
    /\ [][(blocks' # blocks /\ NoDup(blocks) /\ ~NoDup(blocks')) =>
            /\ PlayingTick
            /\ outcome' = "eat"
            /\ blocks'[1] \in Range(Tail(blocks'))
            /\ NoDup(Tail(blocks'))]_vars

C8_Witness == outcome = "eat" /\ ~NoDup(blocks) /\ NoDup(Tail(blocks))

\* C9: every body cell and every flower is inside the grid, and each new head
\* is the old head plus the direction modulo the grid size.
InGrid(pos) == 0 <= pos[1] /\ pos[1] < rows /\ 0 <= pos[2] /\ pos[2] < cols

C9_InGrid ==
    /\ \A i \in 1..Len(blocks) : InGrid(blocks[i])
    /\ \A f \in flowers : InGrid(f)
    /\ InGrid(new_block)

C9_Wrap ==
    /\ C9_InGrid
    /\ [][(blocks' # blocks \/ flowers' # flowers \/ new_block' # new_block) =>
            /\ C9_InGrid'
            /\ PlayingTick =>
                 /\ new_block' = TorusStep(Head_(blocks), dir)
                 /\ outcome' \in {"move", "eat"} => Head_(blocks') = new_block']_vars

C9_Witness ==
    /\ outcome \in {"move", "eat"}
    /\ Len(blocks) > 1
    /\ \/ Head_(blocks)[2] = 0 /\ blocks[Len(blocks) - 1][2] = cols - 1
       \/ Head_(blocks)[1] = rows - 1 /\ blocks[Len(blocks) - 1][1] = 0 /\ rows > 2

\* C10: score changes only on a tick that eats, and then by exactly +1; it is
\* kept on every other tick, respawn and the final tick included.
C10_Score ==
    [][IF PlayingTick /\ outcome' = "eat"
       THEN score' = score + 1
       ELSE score' = score]_vars

C10_Witness == outcome = "over" /\ score = 1 /\ lives0 = MaxLives

\* C11: every arrow key is accepted as it is in every state of the running
\* game, and a tick taken in 'playing' with the direction pointing from the
\* head to the cell just behind it (the reverse of the last move) reports a
\* self-collision: the tail is removed, nothing else moves, nothing is eaten.
C11_Accepts == Running => \A key \in Keys : ENABLED (KeyCallback /\ dir' = KeyDir(key))

C11_Reversal ==
    [][/\ dir' = dir => C11_Accepts
       /\ (/\ PlayingTick
           /\ TorusStep(Head_(blocks), dir) = blocks[Len(blocks) - 1])
          => /\ deaths' = deaths + 1
             /\ outcome' \in {"death", "over"}
             /\ blocks' = Tail(blocks)
             /\ score' = score]_vars

C11_Witness ==
    /\ outcome = "death"
    /\ score = 1
    /\ dir = <<0, -1>>
    /\ new_block = TorusStep(Head_(blocks), dir)
    /\ new_block = blocks[Len(blocks) - 1]

\* C12: at game start and after every respawn the snake is the same three
\* cells, tail first, ending at the centre (rows div 2, cols div 2), columns
\* wrapped, heading (0,1), whatever happened before; on a 30 x 40 grid the
\* head is (15,20).
C12_Construction ==
    /\ blocks = InitialSnake
    /\ dir = <<0, 1>>
    /\ SnakeBlocks(30, 40) = <<<<15, 18>>, <<15, 19>>, <<15, 20>>>>
    /\ [][(state = "died" /\ state' # "died") =>
            /\ blocks' = InitialSnake
            /\ dir' = <<0, 1>>
            /\ SnakeBlocks(30, 40)[Length] = <<15, 20>>]_vars

C12_Witness ==
    /\ outcome = "respawn"
    /\ cols = Length
    /\ blocks = <<<<rows \div 2, 2>>, <<rows \div 2, 0>>, <<rows \div 2, 1>>>>
    /\ dir = <<0, 1>>
    /\ deaths = 1

\* C13: the body is never empty: it has Length cells at construction, at
\* least one cell is left inside Snake.update once the tail is removed (the
\* old head can be read), and a death tick leaves at least one cell.
C13_NeverEmpty ==
    /\ Len(blocks) >= 1
    /\ outcome \in {"new", "respawn"} => Len(blocks) = Length
    /\ (state = "playing" /\ Running) => Len(Tail(blocks)) >= 1
    /\ outcome \in {"death", "over"} => Len(blocks) >= Length - 1

C13_Witness == outcome = "over" /\ Len(blocks) = Length - 1 /\ score = 0

\* C14: a tick reports a self-collision exactly when the new head cell (old
\* head plus direction, wrapped) is one of the cells left after the tail is
\* removed; stepping onto the cell only the tail occupied is survived.
C14_CollisionExact ==
    [][PlayingTick =>
         /\ (deaths' = deaths + 1) <=> (TorusStep(Head_(blocks), dir) \in Range(Tail(blocks)))
         /\ (deaths' = deaths + 1) <=> (outcome' \in {"death", "over"})
         /\ (deaths' = deaths) <=> (outcome' \in {"move", "eat"})
         /\ (/\ TorusStep(Head_(blocks), dir) = blocks[1]
             /\ blocks[1] \notin Range(Tail(blocks)))
            => /\ outcome' \in {"move", "eat"}
               /\ Head_(blocks') = blocks[1]]_vars

\* A straight three-cell snake told to go back along its body, as in the
\* example [(5,5),(5,6),(5,7)] with direction (0,-1): dead on the first tick.
C14_Witness ==
    /\ outcome \in {"death", "over"}
    /\ deaths = 1
    /\ score = 0
    /\ dir = <<0, -1>>
    /\ blocks = Tail(InitialSnake)
    /\ new_block = blocks[1]

\* C15: on a tick that detects a self-collision the collision check comes
\* first: the body is left as the old body without its tail, and direction,
\* flowers and score are untouched, whatever the cell the head ran into holds.
C15_DeathFrame ==
    [][(state = "playing" /\ TorusStep(Head_(blocks), dir) \in Range(Tail(blocks))
        /\ <<blocks, deaths, outcome, flowers, score>>' # <<blocks, deaths, outcome, flowers, score>>) =>
         /\ blocks' = Tail(blocks)
         /\ dir' = dir
         /\ flowers' = flowers
         /\ score' = score
         /\ deaths' = deaths + 1
         /\ outcome' \in {"death", "over"}]_vars

C15_Witness ==
    /\ outcome = "over"
    /\ score = 1
    /\ Len(blocks) = Length
    /\ new_block \in Range(blocks)
    /\ Cardinality(flowers) = NumFlowers

\* The cell a head runs into never holds a flower: a flower can lie under the
\* snake only under the tail cell Grow prepended, which the next tick removes
\* before it tests for a collision.
C15_NoFlowerUnderRest == flowers \cap Range(Tail(blocks)) = {}

\* C16: a tick in 'playing' removes at most one flower, and only the one on
\* the cell the head moves onto: every other flower is still there after it.
C16_OneFlowerPerTick ==
    [][state = "playing" =>
         /\ (flowers \ {TorusStep(Head_(blocks), dir)}) \subseteq flowers'
         /\ Cardinality(flowers \ flowers') <= 1
         /\ flowers \ flowers' # {} =>
              /\ outcome' = "eat"
              /\ Head_(blocks') \in flowers
              /\ flowers \ flowers' = {Head_(blocks')}]_vars

C16_Witness ==
    /\ outcome = "eat"
    /\ score = 1
    /\ Head_(blocks) = new_block
    /\ new_block \notin flowers
    /\ Cardinality(flowers) = NumFlowers
    /\ deaths = 1

\* C17: no exception ends the program: eat_flower is only ever called with a
\* position that is a flower, and the state is always 'playing' or 'died',
\* so Game.sleep never raises.
C17_NoError ==
    /\ raised = "none"
    /\ state \in {"playing", "died"}

C17_Witness ==
    /\ outcome = "eat"
    /\ raised = "none"
    /\ state = "playing"
    /\ score = MaxScore
    /\ new_block \notin flowers
    /\ deaths = 1

\* C18: a sampling loop entered with at least num_flowers cells off the snake
\* ends under fair sampling; a loop entered with num_flowers flowers changes
\* nothing; an iteration made with fewer than num_flowers cells off the snake
\* neither completes the flower set nor leaves the loop.
FreeCells == Cells \ Range(blocks)

C18_Terminates == (pc = "field" /\ Cardinality(FreeCells) >= NumFlowers) ~> (pc = "idle")

C18_NoOp ==
    [][(pc = "field" /\ ~LoopCond(flowers)) =>
         (flowers' = flowers /\ pc' = "idle")]_vars

C18_NeverEnds ==
    [][(pc = "field" /\ LoopCond(flowers)
        /\ Cardinality(FreeCells) < NumFlowers) =>
         (pc' = "field" /\ LoopCond(flowers'))]_vars

C18_RespawnTermination == C18_Terminates /\ C18_NoOp /\ C18_NeverEnds

\* What the loops do instead: a flower under the snake counts towards
\* num_flowers, so the loop is stuck exactly while the flowers present and
\* the cells off the snake together are fewer than num_flowers.
C18_Stuck ==
    [][(pc = "field" /\ Cardinality(flowers \cup FreeCells) < NumFlowers) =>
         (pc' = "field" /\ LoopCond(flowers'))]_vars

C18_Leaves ==
    (pc = "field" /\ Cardinality(flowers \cup FreeCells) >= NumFlowers) ~> (pc = "idle")

\* The loop of Field.update completing the set although one cell is free.
C18_Witness ==
    /\ pc = "field"
    /\ outcome = "eat"
    /\ Cardinality(FreeCells) < NumFlowers
    /\ ~LoopCond(flowers)

\* A loop that can never end: construction on a grid the snake fills.
C18_StuckWitness == pc = "field" /\ outcome = "new" /\ FreeCells = {}

\* C19: on an eating tick, with t1 the tail and t2 the next cell after the
\* tail removal, the cell Grow prepends is
\* ((2*t1_r - t2_r) mod rows, (2*t1_c - t2_c) mod cols): the toroidal
\* neighbour of t1 continuing away from t2, also when t1 and t2 straddle a
\* wrap edge.
Mod(a, n) == ((a % n) + n) % n

UnitDirs == {<<-1, 0>>, <<1, 0>>, <<0, -1>>, <<0, 1>>}

Straddle(t1, t2) ==
    \/ t1[1] - t2[1] \notin {-1, 0, 1}
    \/ t1[2] - t2[2] \notin {-1, 0, 1}

C19_GrowOnTorus ==
    [][(PlayingTick /\ outcome' = "eat") =>
         LET t1 == blocks[2]
             t2 == blocks[3]
         IN  /\ blocks'[1] = <<Mod(2 * t1[1] - t2[1], rows), Mod(2 * t1[2] - t2[2], cols)>>
             /\ blocks'[2] = t1 /\ blocks'[3] = t2
             /\ \E d \in UnitDirs : TorusStep(t2, d) = t1
             /\ \A d \in UnitDirs :
                  TorusStep(t2, d) = t1 => blocks'[1] = TorusStep(t1, d)]_vars

\* An eating tick whose tail pair straddled a wrap edge.
C19_Witness ==
    /\ outcome = "eat"
    /\ Len(blocks) >= 3
    /\ Straddle(blocks[2], blocks[3])
    /\ blocks[1] = <<Mod(2 * blocks[2][1] - blocks[3][1], rows),
                     Mod(2 * blocks[2][2] - blocks[3][2], cols)>>

\* C20: on a grid with cols >= 3 every two consecutive cells of the body are
\* toroidal neighbours, one unit step apart in row or column modulo the grid
\* size: after construction, after every move, after every Grow and after a
\* death tick.
Neighbours(a, b) == a # b /\ InGrid(a) /\ InGrid(b) /\ \E d \in UnitDirs : TorusStep(a, d) = b

Contiguous(s) == \A i \in 1..(Len(s) - 1) : Neighbours(s[i], s[i + 1])

C20_Contiguous == cols >= 3 => Contiguous(blocks)

\* A body that has grown, lies across a wrap edge and has just lost a life
\* (the death tick leaves it one cell shorter than the grown body was).
C20_Witness ==
    /\ outcome = "death"
    /\ cols >= 3
    /\ Len(blocks) >= Length
    /\ \E i \in 1..(Len(blocks) - 1) : Straddle(blocks[i], blocks[i + 1])
    /\ Contiguous(blocks)

====
